---------------------------- MODULE Spec2Model ----------------------------
(***************************************************************************)
(* A model of langcodes: the BCP 47 tag parser (langcodes/tag_parser.py)   *)
(* and the meaning builder and transforms (langcodes/semantics.py).        *)
(*                                                                         *)
(* Tags, subtags and messages are TLA+ strings; a character is a string of *)
(* length one.  A call that returns is [ok |-> TRUE, val |-> v]; a call    *)
(* that raises is [ok |-> FALSE, exc |-> <exception class>, msg |-> m].    *)
(***************************************************************************)
EXTENDS Integers, Sequences, FiniteSets, TLC

VARIABLES
    tag,        \* the tag string handed to the operation
    tables,     \* the lookup tables of the process (read-only after Init)
    pc,         \* where the run is
    subtags,    \* parse_subtags: the subtags still to be consumed
    expect,     \* parse_subtags: the expect cursor
    parsed,     \* parse: the (type, value) pairs found so far
    result,     \* what the last completed call returned or raised
    flag,       \* the normalize / macro argument of the last call
    meaning,    \* the Meaning Record the transforms work on
    other,      \* the second Meaning Record of a comparison
    again       \* what the call returned when repeated on its own output

vars == <<tag, tables, pc, subtags, expect, parsed, result, flag, meaning,
          other, again>>

-----------------------------------------------------------------------------
(* Characters and the str methods the code uses.                           *)

\* The characters of the model, in code point order.
ASCII == "*-0123456789ABCDEFGHIJKLMNOPQRSTUVWXYZ_abcdefghijklmnopqrstuvwxyz"
UPPERCASE == "ABCDEFGHIJKLMNOPQRSTUVWXYZ"
LOWERCASE == "abcdefghijklmnopqrstuvwxyz"
DIGITS == "0123456789"

CharAt(s, i) == SubSeq(s, i, i)
CharsOf(s) == {CharAt(s, i) : i \in 1..Len(s)}
IndexIn(s, c) == CHOOSE i \in 1..Len(s) : CharAt(s, i) = c

Letters == CharsOf(UPPERCASE) \cup CharsOf(LOWERCASE)
Digits == CharsOf(DIGITS)

\* code point order of two characters
OrdOf == [c \in CharsOf(ASCII) |-> IndexIn(ASCII, c)]
LowerOf == [c \in CharsOf(ASCII) |->
              IF c \in CharsOf(UPPERCASE)
              THEN CharAt(LOWERCASE, IndexIn(UPPERCASE, c)) ELSE c]
UpperOf == [c \in CharsOf(ASCII) |->
              IF c \in CharsOf(LOWERCASE)
              THEN CharAt(UPPERCASE, IndexIn(LOWERCASE, c)) ELSE c]

RECURSIVE lower(_)
lower(s) == IF s = "" THEN "" ELSE LowerOf[Head(s)] \o lower(Tail(s))

RECURSIVE upper(_)
upper(s) == IF s = "" THEN "" ELSE UpperOf[Head(s)] \o upper(Tail(s))

\* str.title(): a letter that follows a letter is lowercased, any other
\* letter is uppercased.
RECURSIVE TitleFrom(_, _)
TitleFrom(s, afterLetter) ==
    IF s = "" THEN ""
    ELSE LET c == Head(s)
         IN  (IF afterLetter THEN LowerOf[c] ELSE UpperOf[c])
                \o TitleFrom(Tail(s), c \in Letters)
title(s) == TitleFrom(s, FALSE)

isalpha(s) == s # "" /\ \A i \in 1..Len(s) : CharAt(s, i) \in Letters
isdigit(s) == s # "" /\ \A i \in 1..Len(s) : CharAt(s, i) \in Digits

\* str.replace(old, new) for single characters
RECURSIVE replace(_, _, _)
replace(s, old, new) ==
    IF s = "" THEN ""
    ELSE (IF Head(s) = old THEN new ELSE Head(s)) \o replace(Tail(s), old, new)

\* str.split(sep) for a single character: never empty, "" splits to <<"">>
RECURSIVE SplitFrom(_, _, _)
SplitFrom(s, sep, cur) ==
    IF s = "" THEN <<cur>>
    ELSE IF Head(s) = sep THEN <<cur>> \o SplitFrom(Tail(s), sep, "")
    ELSE SplitFrom(Tail(s), sep, cur \o Head(s))
split(s, sep) == SplitFrom(s, sep, "")

\* sep.join(parts)
RECURSIVE join(_, _)
join(sep, parts) ==
    IF parts = <<>> THEN ""
    ELSE IF Len(parts) = 1 THEN parts[1]
    ELSE parts[1] \o sep \o join(sep, Tail(parts))

\* %r of a subtag
repr(s) == "'" \o s \o "'"

\* s < t for strings, as Python compares them
RECURSIVE StrLess(_, _)
StrLess(s, t) ==
    IF t = "" THEN FALSE
    ELSE IF s = "" THEN TRUE
    ELSE IF Head(s) = Head(t) THEN StrLess(Tail(s), Tail(t))
    ELSE OrdOf[Head(s)] < OrdOf[Head(t)]

\* sorted(a set of strings)
RECURSIVE sorted(_)
sorted(S) ==
    IF S = {} THEN <<>>
    ELSE LET m == CHOOSE x \in S : \A y \in S : x = y \/ StrLess(x, y)
         IN  <<m>> \o sorted(S \ {m})

Return(v) == [ok |-> TRUE, val |-> v]
Raise(cls, m) == [ok |-> FALSE, exc |-> cls, msg |-> m]

-----------------------------------------------------------------------------
(* tag_parser.py                                                           *)

EXCEPTIONS == {
    "en-gb-oed", "i-ami", "i-bnn", "i-default", "i-enochian", "i-hak",
    "i-klingon", "i-lux", "i-mingo", "i-navajo", "i-pwn", "i-tao", "i-tay",
    "i-tsu", "sgn-be-fr", "sgn-be-nl", "sgn-ch-de",
    "art-lojban", "cel-gaulish", "no-bok", "no-nyn", "zh-guoyu", "zh-hakka",
    "zh-min", "zh-min-nan", "zh-xiang" }

EXTLANG == 0
SCRIPT == 1
REGION == 2
VARIANT == 3
EXTENSION == 4
\* SUBTAG_TYPES[k] of the code is SUBTAG_TYPES[k + 1] here
SUBTAG_TYPES == <<"extlang", "script", "region", "variant", "extension",
                  "end of string">>

normalize_characters(t) == replace(lower(t), "_", "-")

LanguageTagError(m) == Raise("LanguageTagError", m)

\* order_error listing the kinds from the subtag's own kind on, not from the
\* expect cursor
order_error_from_got(subtag, got, expected) ==
    LET options == SubSeq(SUBTAG_TYPES, got + 1, Len(SUBTAG_TYPES))
        n == Len(options)
        expect_str ==
            IF n = 1 THEN options[1]
            ELSE IF n = 2 THEN options[1] \o " or " \o options[2]
            ELSE join(", ", SubSeq(options, 1, n - 1)) \o ", or " \o options[n]
        got_str == SUBTAG_TYPES[got + 1]
    IN  LanguageTagError("This " \o got_str \o " subtag, " \o repr(subtag)
                         \o ", is out of place. Expected " \o expect_str \o ".")

order_error(subtag, got, expected) ==
    LET options == SubSeq(SUBTAG_TYPES, expected + 1, Len(SUBTAG_TYPES))
        n == Len(options)
        expect_str ==
            IF n = 1 THEN options[1]
            ELSE IF n = 2 THEN options[1] \o " or " \o options[2]
            ELSE join(", ", SubSeq(options, 1, n - 1)) \o ", or " \o options[n]
        got_str == SUBTAG_TYPES[got + 1]
    IN  LanguageTagError("This " \o got_str \o " subtag, " \o repr(subtag)
                         \o ", is out of place. Expected " \o expect_str \o ".")

subtag_error(subtag, expected) ==
    LanguageTagError("Expected " \o expected \o ", got " \o repr(subtag))

\* One activation of a parsing function ends in one of three ways: it raises,
\* it returns a list, or it returns a list plus a recursive parse_subtags call.
Raises(e) == [t |-> "raise", err |-> e]
Returns(out) == [t |-> "return", out |-> out]
Recurse(out, rest, exp) == [t |-> "recurse", out |-> out, rest |-> rest, expect |-> exp]

parse_extlang(subs) ==
    LET n == Len(subs)
        \* the index the while loop stops at (0-based count of entries taken)
        index == CHOOSE k \in 0..3 :
                    /\ k <= n
                    /\ \A j \in 1..k : Len(subs[j]) = 3
                    /\ (k < n /\ k < 3) => Len(subs[k + 1]) # 3
    IN  Recurse([j \in 1..index |-> <<"extlang", subs[j]>>],
                SubSeq(subs, index + 1, n), SCRIPT)

\* parse_extension that lets an extension, like private use, take every
\* subtag that is left
parse_extension_rest(subs) ==
    LET subtag == subs[1]
        n == Len(subs)
    IN  IF n = 1
        THEN Raises(LanguageTagError("The subtag " \o repr(subtag)
                                     \o " must be followed by something"))
        ELSE IF subtag = "x"
        THEN Returns(<< <<"private", join("-", subs)>> >>)
        ELSE Recurse(<< <<"extension", join("-", subs)>> >>, <<>>, EXTENSION)

parse_extension(subs) ==
    LET subtag == subs[1]
        n == Len(subs)
    IN  IF n = 1
        THEN Raises(LanguageTagError("The subtag " \o repr(subtag)
                                     \o " must be followed by something"))
        ELSE IF subtag = "x"
        THEN Returns(<< <<"private", join("-", subs)>> >>)
        ELSE LET boundary ==      \* 0-based, as in the code
                    CHOOSE b \in 1..n :
                        /\ \A j \in 2..b : Len(subs[j]) # 1
                        /\ b < n => Len(subs[b + 1]) = 1
             IN  Recurse(<< <<"extension", join("-", SubSeq(subs, 1, boundary))>> >>,
                         SubSeq(subs, boundary + 1, n), EXTENSION)

NoType == -1

\* the tagtype the big elif block of parse_subtags settles on
TagTypeOf(subtag) ==
    LET tag_length == Len(subtag)
    IN  IF tag_length = 2 THEN (IF isalpha(subtag) THEN REGION ELSE NoType)
        ELSE IF tag_length = 3 THEN (IF isdigit(subtag) THEN REGION ELSE NoType)
        ELSE IF tag_length = 4
        THEN (IF isalpha(subtag) THEN SCRIPT
              ELSE IF isdigit(Head(subtag)) THEN VARIANT ELSE NoType)
        ELSE VARIANT

\* parse_subtags that leaves the expect cursor on a script or region it took
parse_subtags_typed_stay(subs, exp, subtag, tag_length, tagtype) ==
    IF tag_length = 0 \/ tag_length > 8
    THEN Raises(subtag_error(subtag, "1-8 characters"))
    ELSE IF tag_length = 1 THEN parse_extension(subs)
    ELSE IF tag_length = 3 /\ isalpha(subtag)
    THEN (IF exp <= EXTLANG THEN parse_extlang(subs)
          ELSE Raises(order_error(subtag, EXTLANG, exp)))
    ELSE IF tagtype = NoType
    THEN Raises(subtag_error(subtag, "a valid subtag"))
    ELSE IF tagtype < exp
    THEN Raises(order_error(subtag, tagtype, exp))
    ELSE Recurse(<< <<SUBTAG_TYPES[tagtype + 1],
                      IF tagtype = SCRIPT THEN title(subtag)
                      ELSE IF tagtype = REGION THEN upper(subtag)
                      ELSE subtag>> >>,
                 Tail(subs),
                 tagtype)

\* parse_subtags past its base case, with subtag = subtags[0] and the
\* tagtype the elif block found
parse_subtags_typed(subs, exp, subtag, tag_length, tagtype) ==
    IF tag_length = 0 \/ tag_length > 8
    THEN Raises(subtag_error(subtag, "1-8 characters"))
    ELSE IF tag_length = 1 THEN parse_extension(subs)
    ELSE IF tag_length = 3 /\ isalpha(subtag)
    THEN (IF exp <= EXTLANG THEN parse_extlang(subs)
          ELSE Raises(order_error(subtag, EXTLANG, exp)))
    ELSE IF tagtype = NoType
    THEN Raises(subtag_error(subtag, "a valid subtag"))
    ELSE IF tagtype < exp
    THEN Raises(order_error(subtag, tagtype, exp))
    ELSE Recurse(<< <<SUBTAG_TYPES[tagtype + 1],
                      IF tagtype = SCRIPT THEN title(subtag)
                      ELSE IF tagtype = REGION THEN upper(subtag)
                      ELSE subtag>> >>,
                 Tail(subs),
                 IF tagtype \in {SCRIPT, REGION} THEN tagtype + 1 ELSE tagtype)

\* parse_subtags up to (not including) its recursive call
parse_subtags_call(subs, exp) ==
    IF subs = <<>> THEN Returns(<<>>)
    ELSE parse_subtags_typed(subs, exp, subs[1], Len(subs[1]), TagTypeOf(subs[1]))

\* [...] + parse_subtags(...): the list out put before what the call gives
Prepend(out, r) == IF r.ok THEN Return(out \o r.val) ELSE r

\* what an activation that ended as c gives its caller, the recursive
\* parse_subtags calls made
RECURSIVE parse_subtags_from(_)
parse_subtags_from(c) ==
    IF c.t = "raise" THEN c.err
    ELSE IF c.t = "return" THEN Return(c.out)
    ELSE Prepend(c.out, parse_subtags_from(parse_subtags_call(c.rest, c.expect)))

parse_subtags(subs, exp) == parse_subtags_from(parse_subtags_call(subs, exp))

\* parse past normalize_characters and split
parse_normalized(ntag, subs) ==
    IF ntag \in EXCEPTIONS THEN Returns(<< <<"grandfathered", ntag>> >>)
    ELSE IF subs[1] = "x"
    THEN (IF Len(subs) = 1
          THEN Raises(LanguageTagError("'x' is not a language tag on its own"))
          ELSE Returns(<< <<"language", ntag>> >>))
    ELSE IF Len(subs[1]) >= 2
    THEN Recurse(<< <<"language", subs[1]>> >>, Tail(subs), EXTLANG)
    ELSE Raises(subtag_error(subs[1], "a language code"))

\* parse up to (not including) its call of parse_subtags
parse_call(t) ==
    parse_normalized(normalize_characters(t), split(normalize_characters(t), "-"))

parse(t) == parse_subtags_from(parse_call(t))

-----------------------------------------------------------------------------
(* semantics.py.  The lookup tables are module globals filled from the     *)
(* database when the module is loaded; here they are the fields of the     *)
(* variable tables, set by Init and never changed.                         *)

NORMALIZED_LANGUAGES == tables.NORMALIZED_LANGUAGES
NORMALIZED_MACROLANGUAGES == tables.NORMALIZED_MACROLANGUAGES
MACROLANGUAGES == tables.MACROLANGUAGES
NORMALIZED_REGIONS == tables.NORMALIZED_REGIONS
DEFAULT_SCRIPTS == tables.DEFAULT_SCRIPTS
LIKELY_SUBTAGS == tables.LIKELY_SUBTAGS

\* dict operations
EmptyDict == [k \in {} |-> ""]
Put(d, k, v) == [x \in DOMAIN d \cup {k} |-> IF x = k THEN v ELSE d[x]]
Del(d, k) == [x \in DOMAIN d \ {k} |-> d[x]]
update(d, e) == [x \in DOMAIN d \cup DOMAIN e |-> IF x \in DOMAIN e THEN e[x] ELSE d[x]]
\* d.setdefault(k, set()).add(v)
SetAdd(d, k, v) == Put(d, k, (IF k \in DOMAIN d THEN d[k] ELSE {}) \cup {v})

KeyError(k) == Raise("KeyError", repr(k))

\* the start of tag_to_meaning: the whole-tag replacement, then parse
tag_to_meaning_components(t, normalize) ==
    parse(IF normalize /\ lower(t) \in DOMAIN NORMALIZED_LANGUAGES
          THEN NORMALIZED_LANGUAGES[lower(t)] ELSE t)

\* meaning.update(tag_to_meaning(t, normalize)): the body of the for loop asks
\* for the nested call, which the loop below runs
MergeCall(t) == [ok |-> TRUE, call |-> t]

\* the loop body replacing a region whatever normalize says
tag_to_meaning_component_region(m, typ, value, normalize) ==
    IF typ = "extlang" /\ normalize
    THEN IF "language" \notin DOMAIN m THEN KeyError("language")
         ELSE LET minitag == m["language"] \o "-" \o value
              IN  IF minitag \in DOMAIN NORMALIZED_LANGUAGES
                  THEN MergeCall(NORMALIZED_LANGUAGES[minitag])
                  ELSE Return(SetAdd(m, typ, value))
    ELSE IF typ \in {"extlang", "variant", "extension"}
    THEN Return(SetAdd(m, typ, value))
    ELSE IF typ = "language"
    THEN IF value = "und" THEN Return(m)
         ELSE IF normalize /\ value \in DOMAIN NORMALIZED_LANGUAGES
         THEN MergeCall(NORMALIZED_LANGUAGES[value])
         ELSE Return(IF value \in DOMAIN MACROLANGUAGES
                     THEN Put(Put(m, typ, value), "macrolanguage",
                              MACROLANGUAGES[value])
                     ELSE Put(m, typ, value))
    ELSE IF typ = "region"
    THEN Return(Put(m, typ, IF value \in DOMAIN NORMALIZED_REGIONS
                            THEN NORMALIZED_REGIONS[value] ELSE value))
    ELSE Return(Put(m, typ, value))

\* one iteration of tag_to_meaning's for loop, on the dict m built so far
tag_to_meaning_component(m, typ, value, normalize) ==
    IF typ = "extlang" /\ normalize
    THEN IF "language" \notin DOMAIN m THEN KeyError("language")
         ELSE LET minitag == m["language"] \o "-" \o value
              IN  IF minitag \in DOMAIN NORMALIZED_LANGUAGES
                  THEN MergeCall(NORMALIZED_LANGUAGES[minitag])
                  ELSE Return(SetAdd(m, typ, value))
    ELSE IF typ \in {"extlang", "variant", "extension"}
    THEN Return(SetAdd(m, typ, value))
    ELSE IF typ = "language"
    THEN IF value = "und" THEN Return(m)
         ELSE IF normalize /\ value \in DOMAIN NORMALIZED_LANGUAGES
         THEN MergeCall(NORMALIZED_LANGUAGES[value])
         ELSE Return(IF value \in DOMAIN MACROLANGUAGES
                     THEN Put(Put(m, typ, value), "macrolanguage",
                              MACROLANGUAGES[value])
                     ELSE Put(m, typ, value))
    ELSE IF typ = "region"
    THEN Return(Put(m, typ, IF normalize /\ value \in DOMAIN NORMALIZED_REGIONS
                            THEN NORMALIZED_REGIONS[value] ELSE value))
    ELSE Return(Put(m, typ, value))

\* A frame of tag_to_meaning: the components its for loop has still to take
\* and its dict.
Frame(components, m) == [components |-> components, meaning |-> m]
Done(r) == [done |-> TRUE, res |-> r]
GoOn(stack) == [done |-> FALSE, stack |-> stack]

\* tag_to_meaning with its call stack spelled out: stack[Len(stack)] is the
\* running call, the frames below it wait in meaning.update(...) for the
\* call above them.

\* the nested call's parse returned or raised c
tag_to_meaning_nested(below, top, c) ==
    IF c.ok
    THEN GoOn(below \o <<Frame(Tail(top.components), top.meaning),
                         Frame(c.val, EmptyDict)>>)
    ELSE Done(c)

\* the loop body ended as step
tag_to_meaning_stepped(below, top, step, normalize) ==
    IF ~step.ok THEN Done(step)
    ELSE IF "call" \notin DOMAIN step
    THEN GoOn(below \o <<Frame(Tail(top.components), step.val)>>)
    ELSE tag_to_meaning_nested(below, top,
                               tag_to_meaning_components(step.call, normalize))

\* the running call takes its next component, or returns its dict
tag_to_meaning_step(below, top, normalize) ==
    IF top.components = <<>>
    THEN IF below = <<>> THEN Done(Return(top.meaning))
         ELSE GoOn(SubSeq(below, 1, Len(below) - 1)
                   \o <<Frame(below[Len(below)].components,
                              update(below[Len(below)].meaning, top.meaning))>>)
    ELSE tag_to_meaning_stepped(below, top,
             tag_to_meaning_component(top.meaning, top.components[1][1],
                                      top.components[1][2], normalize),
             normalize)

RECURSIVE tag_to_meaning_run(_, _)
tag_to_meaning_run(o, normalize) ==
    IF o.done THEN o.res
    ELSE tag_to_meaning_run(
             tag_to_meaning_step(SubSeq(o.stack, 1, Len(o.stack) - 1),
                                 o.stack[Len(o.stack)], normalize),
             normalize)

\* the outer call's parse returned or raised components
tag_to_meaning_parsed(components, normalize) ==
    IF components.ok
    THEN tag_to_meaning_run(GoOn(<<Frame(components.val, EmptyDict)>>), normalize)
    ELSE components

tag_to_meaning(t, normalize) ==
    tag_to_meaning_parsed(tag_to_meaning_components(t, normalize), normalize)

prefer_macrolanguage(m) ==
    LET language == IF "language" \in DOMAIN m THEN m["language"] ELSE "und"
    IN  IF language \in DOMAIN NORMALIZED_MACROLANGUAGES
        THEN Del(Put(m, "language", NORMALIZED_MACROLANGUAGES[language]),
                 "macrolanguage")
        ELSE m

meaning_to_tag(m) ==
    join("-",
         <<IF "language" \in DOMAIN m THEN m["language"] ELSE "und">>
         \o (IF "script" \in DOMAIN m THEN <<m["script"]>> ELSE <<>>)
         \o (IF "region" \in DOMAIN m THEN <<m["region"]>> ELSE <<>>)
         \o (IF "variant" \in DOMAIN m THEN sorted(m["variant"]) ELSE <<>>)
         \o (IF "extension" \in DOMAIN m THEN sorted(m["extension"]) ELSE <<>>)
         \o (IF "private" \in DOMAIN m THEN <<m["private"]>> ELSE <<>>))

simplify_script(m) ==
    IF /\ "language" \in DOMAIN m
       /\ "script" \in DOMAIN m
       /\ m["language"] \in DOMAIN DEFAULT_SCRIPTS
       /\ DEFAULT_SCRIPTS[m["language"]] = m["script"]
    THEN Del(m, "script")
    ELSE m

assume_script(m) ==
    IF "language" \in DOMAIN m /\ "script" \notin DOMAIN m
    THEN IF m["language"] \in DOMAIN DEFAULT_SCRIPTS
         THEN Put(m, "script", DEFAULT_SCRIPTS[m["language"]])
         ELSE m
    ELSE m

\* the fields whose values are Python sets
SetValued == {"extlang", "variant", "extension"}

\* meaning_superset asking of a set-valued field only that both records have it
meaning_superset_present(meaning1, meaning2) ==
    \A key \in DOMAIN meaning1 :
        /\ key \in DOMAIN meaning2
        /\ key \notin SetValued => meaning1[key] = meaning2[key]

meaning_superset(meaning1, meaning2) ==
    \A key \in DOMAIN meaning1 :
        /\ key \in DOMAIN meaning2
        /\ IF key \in SetValued
           THEN meaning1[key] \subseteq meaning2[key]
           ELSE meaning1[key] = meaning2[key]

BROADER_KEYSETS == <<
    {"language", "script", "region"},
    {"language", "script"},
    {"language", "region"},
    {"language"},
    {"macrolanguage", "script", "region"},
    {"macrolanguage", "script"},
    {"macrolanguage", "region"},
    {"macrolanguage"},
    {"script", "region"},
    {"script"},
    {"region"},
    {} >>

\* _filter_keys without the renaming of macrolanguage
filter_keys_plain(d, keys) == [key \in keys \cap DOMAIN d |-> d[key]]

filter_keys(d, keys) ==
    LET filtered == [key \in keys \cap DOMAIN d |-> d[key]]
    IN  IF "macrolanguage" \in DOMAIN filtered /\ "language" \notin DOMAIN filtered
        THEN Del(Put(filtered, "language", filtered["macrolanguage"]), "macrolanguage")
        ELSE filtered

\* the sequence the generator yields
broader_meanings(m) ==
    LET Differs(filtered) == filtered # m
    IN  <<m>> \o SelectSeq([i \in 1..Len(BROADER_KEYSETS) |->
                               filter_keys(m, BROADER_KEYSETS[i])], Differs)

RuntimeError(m) == Raise("RuntimeError", m)

\* the update done the other way round: meaning.update(result)
fill_likely_values_found_swapped(r, m) ==
    IF r.ok THEN Return(update(m, r.val)) ELSE r

\* result = tag_to_meaning(...); result.update(meaning); return result
fill_likely_values_found(r, m) == IF r.ok THEN Return(update(r.val, m)) ELSE r

\* the for loop over candidates, the sequence broader_meanings yields
fill_likely_values_loop(candidates, hits, m) ==
    IF hits = {}
    THEN RuntimeError("Couldn't fill in likely values. This represents a problem with langcodes.db.LIKELY_SUBTAGS.")
    ELSE fill_likely_values_found(
             tag_to_meaning(
                 LIKELY_SUBTAGS[meaning_to_tag(
                     candidates[CHOOSE i \in hits : \A j \in hits : i <= j])],
                 TRUE),
             m)

\* the candidates, by index, whose tag is in LIKELY_SUBTAGS
LikelyHits(candidates) ==
    {i \in 1..Len(candidates) :
        meaning_to_tag(candidates[i]) \in DOMAIN LIKELY_SUBTAGS}

fill_likely_values(m) ==
    fill_likely_values_loop(broader_meanings(m), LikelyHits(broader_meanings(m)), m)

\* standardize_tag past its call of tag_to_meaning, which gave r
standardize_tag_meaning(r, macro) ==
    IF ~r.ok THEN r
    ELSE Return(meaning_to_tag(simplify_script(
                    IF macro THEN prefer_macrolanguage(r.val) ELSE r.val)))

standardize_tag(t, macro) == standardize_tag_meaning(tag_to_meaning(t, TRUE), macro)

\* The tables the doctests of semantics.py pin down.
DoctestTables == [
    NORMALIZED_LANGUAGES |-> ("sh" :> "sr-latn") @@ ("sgn-us" :> "ase")
                             @@ ("zh-cmn" :> "cmn"),
    NORMALIZED_MACROLANGUAGES |-> ("arb" :> "ar") @@ ("cmn" :> "zh"),
    MACROLANGUAGES |-> ("sr" :> "sh") @@ ("cmn" :> "zh") @@ ("arb" :> "ar"),
    NORMALIZED_REGIONS |-> ("UK" :> "GB") @@ ("QU" :> "EU"),
    DEFAULT_SCRIPTS |-> ("en" :> "Latn") @@ ("yi" :> "Hebr") @@ ("ar" :> "Arab"),
    LIKELY_SUBTAGS |-> ("und" :> "en-Latn-US") @@ ("zh" :> "zh-Hans-CN")
                       @@ ("sh" :> "sr-Latn-RS") @@ ("und-GB" :> "en-Latn-GB") ]

\* the same tables with a likely-subtags table that lacks the entry for 'und'
NoUndTables ==
    [DoctestTables EXCEPT !.LIKELY_SUBTAGS =
        ("zh" :> "zh-Hans-CN") @@ ("en-Latn" :> "en-Latn-US")]

\* a database with no entries at all
EmptyTables == [
    NORMALIZED_LANGUAGES |-> EmptyDict,
    NORMALIZED_MACROLANGUAGES |-> EmptyDict,
    MACROLANGUAGES |-> EmptyDict,
    NORMALIZED_REGIONS |-> EmptyDict,
    DEFAULT_SCRIPTS |-> EmptyDict,
    LIKELY_SUBTAGS |-> EmptyDict ]

TableChoices == {DoctestTables, NoUndTables, EmptyTables}

-----------------------------------------------------------------------------
(* The inputs: tags made of up to a bounded number of subtags drawn from a *)
(* vocabulary, written in one of the Styles.                               *)

\* all sequences over W of length at most n
SeqsUpTo(W, n) == UNION {[1..k -> W] : k \in 0..n}

Styles == {"plain", "UPPER_UNDERSCORE"}
Styled(t, style) ==
    IF style = "plain" THEN t ELSE replace(upper(t), "-", "_")

TagsOver(firsts, words, n) ==
    {join("-", <<f>> \o s) : f \in firsts, s \in SeqsUpTo(words, n)}

None == "None"
NoMeaning == EmptyDict

-----------------------------------------------------------------------------
(* SpecParse: parse(tag), one activation of parse / parse_subtags per step. *)

MaxParseSubtags == 4
\* one word of every shape parse_subtags tells apart
ParseWords == {"", "u", "x", "tw", "yue", "419", "hant", "1901", "abcdefghi"}
ParseTags == TagsOver({"zh"}, ParseWords, MaxParseSubtags)
                \cup TagsOver({"x", "u", ""}, ParseWords, 1)
                \cup {"zh-min-nan", "en-gb-oed", "zh-a1", "zh-hepburn"}

InitParse ==
    /\ \E t \in ParseTags, st \in Styles : tag = Styled(t, st)
    /\ tables = None
    /\ pc = "start"
    /\ subtags = <<>>
    /\ expect = EXTLANG
    /\ parsed = <<>>
    /\ result = None
    /\ flag = None
    /\ meaning = NoMeaning
    /\ other = NoMeaning
    /\ again = None

\* what an activation's end does to the run
Advance(c) ==
    /\ c.t = "raise" =>
            /\ pc' = "done"
            /\ result' = c.err
            /\ UNCHANGED <<parsed, subtags, expect>>
    /\ c.t = "return" =>
            /\ pc' = "done"
            /\ result' = Return(parsed \o c.out)
            /\ parsed' = parsed \o c.out
            /\ UNCHANGED <<subtags, expect>>
    /\ c.t = "recurse" =>
            /\ pc' = "subtags"
            /\ parsed' = parsed \o c.out
            /\ subtags' = c.rest
            /\ expect' = c.expect
            /\ UNCHANGED result
    /\ UNCHANGED <<tag, tables, flag, meaning, other, again>>

ParseBegin ==
    /\ pc = "start"
    /\ Advance(parse_call(tag))

ParseSubtags ==
    /\ pc = "subtags"
    /\ Advance(parse_subtags_call(subtags, expect))

NextParse == ParseBegin \/ ParseSubtags

SpecParse == InitParse /\ [][NextParse]_vars

\* the stepwise run computes parse(tag)
ParseAgrees == pc = "done" => result = parse(tag)

\* the kinds of a classification, in the order listed
KindsOf(cl) == [i \in 1..Len(cl) |-> cl[i][1]]

\* the rank order language < extlang < script < region < variant < extension
\* < private
KindRank == ("language" :> 0) @@ ("extlang" :> 1) @@ ("script" :> 2)
            @@ ("region" :> 3) @@ ("variant" :> 4) @@ ("extension" :> 5)
            @@ ("private" :> 6)

Count(kinds, k) == Cardinality({i \in DOMAIN kinds : kinds[i] = k})

Ordered(kinds) ==
    /\ \A i \in DOMAIN kinds : \A j \in DOMAIN kinds :
            i < j => KindRank[kinds[i]] <= KindRank[kinds[j]]
    /\ \A k \in {"language", "script", "region", "private"} : Count(kinds, k) <= 1
    /\ Count(kinds, "extlang") <= 3

WhollyPrivate(t) == SubSeq(normalize_characters(t), 1, 2) = "x-"

\* C2: when parse succeeds on a tag that is neither grandfathered nor wholly
\* private-use, the kinds of the classification are in non-decreasing rank
\* order, language, script, region and private occur at most once, and
\* extlang occurs at most three times.
C2_KindOrder ==
    (/\ pc = "done"
     /\ result.ok
     /\ result.val[1][1] # "grandfathered"
     /\ ~WhollyPrivate(tag))
    => Ordered(KindsOf(result.val))

\* a successful parse with one entry of each of five kinds
C2_FiveKinds ==
    /\ pc = "done"
    /\ result.ok
    /\ KindsOf(result.val) = <<"language", "extlang", "script", "region", "variant">>

\* the kind a subtag of two to eight characters has by its shape
HasShape(s) ==
    \/ Len(s) \in {2, 3, 4} /\ isalpha(s)
    \/ Len(s) = 3 /\ isdigit(s)
    \/ Len(s) = 4 /\ isdigit(Head(s))
    \/ Len(s) \in 5..8
ShapeRank(s) ==
    IF Len(s) = 3 /\ isalpha(s) THEN EXTLANG
    ELSE IF Len(s) = 4 /\ isalpha(s) THEN SCRIPT
    ELSE IF Len(s) \in {2, 3} THEN REGION
    ELSE VARIANT
OutOfPlace(s, cursor) == HasShape(s) /\ ShapeRank(s) < cursor

\* the kinds of rank >= cursor, then 'end of string', as the message lists
\* them; ExpectedFrom[cursor + 1]
ExpectedFrom == <<
    "extlang, script, region, variant, extension, or end of string",
    "script, region, variant, extension, or end of string",
    "region, variant, extension, or end of string",
    "variant, extension, or end of string",
    "extension or end of string" >>
ShapeName == <<"extlang", "script", "region", "variant">>

\* C3: whenever parse_subtags meets a subtag whose kind by shape ranks below
\* the expect cursor (a three-letter subtag met past extlang included), the
\* parse ends at that step with a LanguageTagError, no classification is
\* returned, and the message names the subtag, its kind, and exactly the
\* kinds of rank >= the cursor followed by 'end of string'.
C3_OrderError ==
    [][(/\ pc = "subtags"
        /\ subtags # <<>>
        /\ OutOfPlace(subtags[1], expect))
       => (/\ pc' = "done"
           /\ result' = [ok |-> FALSE, exc |-> "LanguageTagError",
                         msg |-> "This " \o ShapeName[ShapeRank(subtags[1]) + 1]
                                 \o " subtag, '" \o subtags[1]
                                 \o "', is out of place. Expected "
                                 \o ExpectedFrom[expect + 1] \o "."])]_vars

\* parse('zh-tw-hant') has failed on the script 'hant' met after a region
C3_ZhTwHant ==
    /\ pc = "done"
    /\ tag = "zh-tw-hant"
    /\ result = [ok |-> FALSE, exc |-> "LanguageTagError",
                 msg |-> "This script subtag, 'hant', is out of place. Expected variant, extension, or end of string."]

\* C10: in a successful parse every extlang entry is a subtag of exactly
\* three letters, and every three-digit subtag outside an extension or
\* private-use block is classified as region.
C10_ShapeKinds ==
    (pc = "done" /\ result.ok)
    => \A i \in 1..Len(result.val) :
          /\ result.val[i][1] = "extlang"
                => Len(result.val[i][2]) = 3 /\ isalpha(result.val[i][2])
          /\ Len(result.val[i][2]) = 3 /\ isdigit(result.val[i][2])
                => result.val[i][1] = "region"

\* parse('zh-yue-419') has returned with '419' as an extlang
C10_ZhYue419 ==
    /\ pc = "done"
    /\ result = Return(<< <<"language", "zh">>, <<"extlang", "yue">>,
                          <<"extlang", "419">> >>)

\* the hyphen-separated subtags of the normalized tag
SubtagsOf(t) == split(normalize_characters(t), "-")

\* a subtag after the language subtag, and before any private-use singleton
\* 'x', that is empty or longer than eight characters
HasBadLength(subs) ==
    \E i \in 2..Len(subs) :
        /\ Len(subs[i]) = 0 \/ Len(subs[i]) > 8
        /\ \A j \in 2..(i - 1) : subs[j] # "x"

\* C11: for a tag that is neither grandfathered nor wholly private-use, a
\* subtag of length 0 or more than 8 after the language subtag and before a
\* private-use singleton, one that follows an extension singleton included,
\* makes parse fail with a LanguageTagError.
C11_BadLengthFails ==
    (/\ pc = "done"
     /\ normalize_characters(tag) \notin EXCEPTIONS
     /\ SubtagsOf(tag)[1] # "x"
     /\ HasBadLength(SubtagsOf(tag)))
    => ~result.ok /\ result.exc = "LanguageTagError"

\* parse('zh-u-abcdefghi') has returned an extension holding the nine-letter
\* subtag
C11_ZhUNineLetters ==
    /\ pc = "done"
    /\ tag = "zh-u-abcdefghi"
    /\ result = Return(<< <<"language", "zh">>, <<"extension", "u-abcdefghi">> >>)

\* the smallest of a set of numbers
Least(S) == CHOOSE i \in S : \A j \in S : i <= j

\* the positions from position from on that hold a subtag of length 1
Singletons(subs, from) == {i \in from..Len(subs) : Len(subs[i]) = 1}
\* the hyphen-join of the subtags from the first such position on; empty if
\* there is none
SingletonSuffix(subs, from) ==
    IF Singletons(subs, from) = {} THEN ""
    ELSE join("-", SubSeq(subs, Least(Singletons(subs, from)), Len(subs)))

\* the values of the extension and private entries, in order
RECURSIVE BlockValues(_)
BlockValues(cl) ==
    IF cl = <<>> THEN <<>>
    ELSE (IF cl[1][1] \in {"extension", "private"} THEN <<cl[1][2]>> ELSE <<>>)
         \o BlockValues(Tail(cl))

\* nothing but extension and private entries after an extension entry, and
\* nothing after a private entry
BlocksLast(cl) ==
    \A i \in 1..Len(cl) :
        /\ cl[i][1] = "extension"
              => \A j \in (i + 1)..Len(cl) : cl[j][1] \in {"extension", "private"}
        /\ cl[i][1] = "private" => i = Len(cl)

\* C12 as stated, for every tag: a length-1 last subtag makes parse fail;
\* when parse succeeds, a singleton 'x' that something follows gives a
\* private entry, the last one, holding the rest of the tag, and the join of
\* the extension and private values is the suffix of the normalized tag from
\* its first length-1 subtag.
C12_AsStated ==
    pc = "done"
    => /\ Len(SubtagsOf(tag)[Len(SubtagsOf(tag))]) = 1 => ~result.ok
       /\ result.ok
             => /\ BlocksLast(result.val)
                /\ join("-", BlockValues(result.val))
                        = SingletonSuffix(SubtagsOf(tag), 1)

\* parse_subtags at a subtag of length 1: alone it fails; 'x' with something
\* after it ends the parse with a private entry holding all that is left; any
\* other singleton with something after it adds one extension entry holding
\* the subtags up to the next subtag of length 1, and goes on from there
\* expecting extensions.
AtSingleton ==
    (/\ pc = "subtags"
     /\ subtags # <<>>
     /\ Len(subtags[1]) = 1)
    => /\ Len(subtags) = 1
            => pc' = "done" /\ ~result'.ok /\ result'.exc = "LanguageTagError"
       /\ (Len(subtags) > 1 /\ subtags[1] = "x")
            => /\ pc' = "done"
               /\ result' = Return(parsed \o << <<"private", join("-", subtags)>> >>)
       /\ (Len(subtags) > 1 /\ subtags[1] # "x")
            => LET next == IF Singletons(subtags, 2) = {} THEN Len(subtags) + 1
                           ELSE Least(Singletons(subtags, 2))
               IN  /\ pc' = "subtags"
                   /\ parsed' = parsed \o << <<"extension",
                                     join("-", SubSeq(subtags, 1, next - 1))>> >>
                   /\ subtags' = SubSeq(subtags, next, Len(subtags))
                   /\ expect' = EXTENSION

\* a tag that is neither grandfathered nor wholly private-use
Sequenced(t) ==
    normalize_characters(t) \notin EXCEPTIONS /\ SubtagsOf(t)[1] # "x"

\* of such a tag: a length-1 last subtag outside a private-use block makes
\* parse fail; when parse succeeds, only extension and private entries follow
\* an extension entry, a private entry is the last one, and the join of the
\* extension and private values is the suffix of the normalized tag from the
\* first length-1 subtag after the language subtag.
ExtensionSuffix ==
    (pc = "done" /\ Sequenced(tag))
    => /\ (/\ Len(SubtagsOf(tag)) > 1
           /\ Len(SubtagsOf(tag)[Len(SubtagsOf(tag))]) = 1
           /\ \A j \in 2..(Len(SubtagsOf(tag)) - 1) : SubtagsOf(tag)[j] # "x")
            => ~result.ok
       /\ result.ok
            => /\ BlocksLast(result.val)
               /\ join("-", BlockValues(result.val))
                        = SingletonSuffix(SubtagsOf(tag), 2)

\* C12: extension handling in parse_subtags, for tags that are neither
\* grandfathered nor wholly private-use and singletons that come after the
\* language subtag and outside a private-use block: a singleton with nothing
\* after it fails the parse; 'x' yields one last private entry holding the
\* rest; another singleton yields one extension entry up to the next
\* singleton, followed only by extension or private entries; so the join of
\* the extension and private values is the suffix of the normalized tag from
\* its first singleton after the language subtag.
C12_Extensions == [][AtSingleton]_vars /\ []ExtensionSuffix

\* parse('zh-u-tw-x-yue') has returned an extension and a private entry
C12_ZhUTwXYue ==
    /\ pc = "done"
    /\ result = Return(<< <<"language", "zh">>, <<"extension", "u-tw">>,
                          <<"private", "x-yue">> >>)

-----------------------------------------------------------------------------
(* Spec: the operations of semantics.py on a tag, under one of the table   *)
(* choices.  tag_to_meaning builds a record; the transforms are applied to *)
(* it in any order, any number of times.                                   *)

MaxSubtags == 2
Firsts == {"en", "zh", "sh", "sgn", "und", "cmn"}
Words == {"cmn", "latn", "us", "uk", "1901", "u"}
Tags == TagsOver(Firsts, Words, MaxSubtags) \cup {"zh-min-nan", "en-gb-oed"}

Init ==
    /\ \E t \in Tags, st \in Styles : tag = Styled(t, st)
    /\ tables \in TableChoices
    /\ pc = "start"
    /\ subtags = <<>>
    /\ expect = EXTLANG
    /\ parsed = <<>>
    /\ result = None
    /\ flag = None
    /\ meaning = NoMeaning
    /\ other = NoMeaning
    /\ again = None

HasMeaning == pc \in {"built", "meaning"}

TagToMeaning(normalize) ==
    /\ pc = "start"
    /\ result' = tag_to_meaning(tag, normalize)
    /\ pc' = IF result'.ok THEN "built" ELSE "raised"
    /\ meaning' = IF result'.ok THEN result'.val ELSE meaning
    /\ flag' = normalize
    /\ UNCHANGED <<tag, tables, subtags, expect, parsed, other, again>>

StandardizeTag(macro) ==
    /\ pc = "start"
    /\ result' = standardize_tag(tag, macro)
    /\ pc' = IF result'.ok THEN "standardized" ELSE "rejected"
    /\ flag' = macro
    /\ UNCHANGED <<tag, tables, subtags, expect, parsed, meaning, other, again>>

\* standardize_tag on the tag standardize_tag returned
StandardizeAgain ==
    /\ pc = "standardized"
    /\ again' = standardize_tag(result.val, flag)
    /\ pc' = "restandardized"
    /\ UNCHANGED <<tag, tables, subtags, expect, parsed, result, flag, meaning, other>>

Transform(m) ==
    /\ HasMeaning
    /\ meaning' = m
    /\ pc' = "meaning"
    /\ result' = None
    /\ flag' = None
    /\ UNCHANGED <<tag, tables, subtags, expect, parsed, other, again>>

PreferMacrolanguage == Transform(prefer_macrolanguage(meaning))
SimplifyScript == Transform(simplify_script(meaning))
AssumeScript == Transform(assume_script(meaning))

BroaderMeanings ==
    /\ HasMeaning
    /\ result' = Return(broader_meanings(meaning))
    /\ pc' = "broadened"
    /\ flag' = None
    /\ UNCHANGED <<tag, tables, subtags, expect, parsed, meaning, other, again>>

FillLikelyValues ==
    /\ HasMeaning
    /\ result' = fill_likely_values(meaning)
    /\ pc' = "filled"
    /\ flag' = None
    /\ UNCHANGED <<tag, tables, subtags, expect, parsed, meaning, other, again>>

\* the caller goes on with one of the records it was given
TakeResult ==
    /\ \/ /\ pc = "broadened"
          /\ \E i \in 1..Len(result.val) : meaning' = result.val[i]
       \/ /\ pc = "filled"
          /\ result.ok
          /\ meaning' = result.val
    /\ pc' = "meaning"
    /\ result' = None
    /\ UNCHANGED <<tag, tables, subtags, expect, parsed, flag, other, again>>

Next ==
    \/ \E b \in BOOLEAN : TagToMeaning(b)
    \/ \E b \in BOOLEAN : StandardizeTag(b)
    \/ StandardizeAgain
    \/ PreferMacrolanguage
    \/ SimplifyScript
    \/ AssumeScript
    \/ BroaderMeanings
    \/ FillLikelyValues
    \/ TakeResult

Spec == Init /\ [][Next]_vars

\* a record in which macrolanguage, if present, comes with a different language
MacrolanguageDiffers(m) ==
    "macrolanguage" \in DOMAIN m
    => "language" \in DOMAIN m /\ m["language"] # m["macrolanguage"]

\* C1: when standardize_tag(T, macro) succeeds, standardize_tag on its result,
\* with the same macro, succeeds and returns that same result.
C1_Idempotent == pc = "restandardized" => again = Return(result.val)

\* standardize_tag('SGN_US') gave 'sgn-US', and standardize_tag('sgn-US')
\* gave 'ase'
C1_SgnUs ==
    /\ pc = "restandardized"
    /\ tag = "SGN_US"
    /\ result = Return("sgn-US")
    /\ again = Return("ase")

\* C4: tag_to_meaning raises nothing but the parser's LanguageTagError, and
\* it returns a record for every tag that parse accepts, with normalize on
\* or off.
C4_OnlyMalformedTag ==
    pc = "raised" => result.exc = "LanguageTagError" /\ ~parse(tag).ok

\* tag_to_meaning('und-cmn') has raised KeyError
C4_UndCmn ==
    /\ pc = "raised"
    /\ tag = "und-cmn"
    /\ parse(tag).ok
    /\ result.exc = "KeyError"

\* the literal transcription of a classification: a field for every kind in
\* it, holding the value (scalar kinds) or the set of values (set-valued kinds)
Literal(cl) ==
    [k \in {cl[i][1] : i \in 1..Len(cl)} |->
        IF k \in SetValued
        THEN {cl[i][2] : i \in {j \in 1..Len(cl) : cl[j][1] = k}}
        ELSE cl[CHOOSE i \in 1..Len(cl) : cl[i][1] = k][2]]

\* the transcription without a language 'und', and with the macrolanguage
\* the table MACROLANGUAGES gives the language
Transcribed(cl) ==
    LET lit == Literal(cl)
        known == IF "language" \in DOMAIN lit /\ lit["language"] = "und"
                 THEN Del(lit, "language") ELSE lit
    IN  IF "language" \in DOMAIN known /\ known["language"] \in DOMAIN MACROLANGUAGES
        THEN Put(known, "macrolanguage", MACROLANGUAGES[known["language"]])
        ELSE known

\* C5 as stated: with normalize off, tag_to_meaning returns the literal
\* transcription of parse(T), whatever the tables hold.
C5_Literal ==
    (pc = "built" /\ flag = FALSE) => result.val = Literal(parse(tag).val)

\* C5: with normalize off, tag_to_meaning consults no replacement table: it
\* fails exactly as parse(T) fails, and otherwise returns the transcription
\* of parse(T) in which a language 'und' is left out and a language that has
\* a macrolanguage in MACROLANGUAGES brings the field macrolanguage.
C5_Transcribed ==
    /\ (pc = "built" /\ flag = FALSE)
            => parse(tag).ok /\ result.val = Transcribed(parse(tag).val)
    /\ (pc = "raised" /\ flag = FALSE) => result = parse(tag)

\* tag_to_meaning('cmn-uk', normalize=False) kept the region 'UK' that the
\* region table replaces, and added the macrolanguage of 'cmn'
C5_CmnUk ==
    /\ pc = "built"
    /\ flag = FALSE
    /\ tag = "cmn-uk"
    /\ result.val = ("language" :> "cmn") @@ ("macrolanguage" :> "zh")
                    @@ ("region" :> "UK")

\* C6: every record tag_to_meaning produced, and every record got from it by
\* prefer_macrolanguage, simplify_script, assume_script, the elements of
\* broader_meanings and fill_likely_values, has a language that differs from
\* its macrolanguage whenever it has a macrolanguage.
C6_MacrolanguageInvariant ==
    /\ MacrolanguageDiffers(meaning)
    /\ pc = "broadened"
            => \A i \in 1..Len(result.val) : MacrolanguageDiffers(result.val[i])
    /\ (pc = "filled" /\ result.ok) => MacrolanguageDiffers(result.val)

\* fill_likely_values on {language: sh} returned language sh, macrolanguage sh
C6_ShOwnMacrolanguage ==
    /\ pc = "filled"
    /\ meaning = ("language" :> "sh")
    /\ result.ok
    /\ "macrolanguage" \in DOMAIN result.val
    /\ result.val["language"] = "sh"
    /\ result.val["macrolanguage"] = "sh"

\* the restriction of m to a keyset, macrolanguage renamed to language when
\* the keyset has no language
Restriction(m, keys) ==
    LET kept == keys \cap DOMAIN m
    IN  IF "macrolanguage" \in kept /\ "language" \notin keys
        THEN [k \in (kept \ {"macrolanguage"}) \cup {"language"} |->
                IF k = "language" THEN m["macrolanguage"] ELSE m[k]]
        ELSE [k \in kept |-> m[k]]

\* the keysets, by index, whose restriction of m is not m itself
Narrowing(m) ==
    {i \in 1..Len(BROADER_KEYSETS) : Restriction(m, BROADER_KEYSETS[i]) # m}
\* the n-th of a set of numbers, counting from the smallest
Nth(S, n) == CHOOSE i \in S : Cardinality({x \in S : x < i}) = n - 1

\* C8: broader_meanings(M) has at most 13 elements, starts with M and ends
\* with the empty record; its later elements are the restrictions of M to
\* the keysets, in the listed order, that differ from M.
C8_BroaderShape ==
    pc = "broadened"
    => /\ Len(result.val) <= 13
       /\ result.val[1] = meaning
       /\ result.val[Len(result.val)] = EmptyDict
       /\ Len(result.val) = 1 + Cardinality(Narrowing(meaning))
       /\ \A j \in 2..Len(result.val) :
             /\ result.val[j] # meaning
             /\ result.val[j] = Restriction(meaning,
                                    BROADER_KEYSETS[Nth(Narrowing(meaning), j - 1)])

\* broader_meanings of a record with a macrolanguage, a script and a region
C8_WithMacrolanguage ==
    /\ pc = "broadened"
    /\ {"macrolanguage", "script", "region"} \subseteq DOMAIN meaning
    /\ Len(result.val) > 8

\* the candidates, by index, that the likely-subtags table has an entry for
Entries(m) ==
    {i \in 1..Len(broader_meanings(m)) :
        meaning_to_tag(broader_meanings(m)[i]) \in DOMAIN LIKELY_SUBTAGS}
\* what the table entry of the first such candidate means
Likely(m) ==
    tag_to_meaning(
        LIKELY_SUBTAGS[meaning_to_tag(broader_meanings(m)[Nth(Entries(m), 1)])],
        TRUE).val

\* C9: fill_likely_values(M) takes the entry of the first element of
\* broader_meanings(M) that has one; the result has M's value in every field
\* of M and the entry's value in every other field; with an entry for 'und'
\* RuntimeError is never raised, and it is raised when no element has an entry.
C9_FillLikely ==
    pc = "filled"
    => /\ Entries(meaning) = {} => result.exc = "RuntimeError"
       /\ "und" \in DOMAIN LIKELY_SUBTAGS => result.ok
       /\ Entries(meaning) # {}
             => /\ result.ok
                /\ DOMAIN result.val = DOMAIN meaning \cup DOMAIN Likely(meaning)
                /\ \A k \in DOMAIN meaning : result.val[k] = meaning[k]
                /\ \A k \in DOMAIN Likely(meaning) \ DOMAIN meaning :
                        result.val[k] = Likely(meaning)[k]
                /\ meaning_superset(meaning, result.val)

\* fill_likely_values on {language: zh, region: US} took the entry for 'zh'
\* and kept the region US
C9_ZhUs ==
    /\ pc = "filled"
    /\ meaning = ("language" :> "zh") @@ ("region" :> "US")
    /\ result = Return(("language" :> "zh") @@ ("script" :> "Hans")
                       @@ ("region" :> "US"))

-----------------------------------------------------------------------------
(* SpecSuperset: meaning_superset on two Meaning Records drawn from a      *)
(* bounded universe.                                                       *)

MaxVariants == 2
VariantNames == <<"1901", "1996", "1994", "fonipa">>
Variants == {VariantNames[i] : i \in 1..MaxVariants}

\* a field that is absent or holds one of the values
Optional(k, values) == {EmptyDict} \cup {k :> v : v \in values}

MeaningRecords ==
    {l @@ s @@ v : l \in Optional("language", {"en", "zh"}),
                   s \in Optional("script", {"Latn"}),
                   v \in Optional("variant", SUBSET Variants \ {{}})}

InitSuperset ==
    /\ meaning \in MeaningRecords
    /\ other \in MeaningRecords
    /\ tag = None
    /\ tables = None
    /\ pc = "start"
    /\ subtags = <<>>
    /\ expect = EXTLANG
    /\ parsed = <<>>
    /\ result = None
    /\ flag = None
    /\ again = None

MeaningSuperset ==
    /\ pc = "start"
    /\ result' = [self |-> meaning_superset(meaning, meaning),
                  empty |-> meaning_superset(EmptyDict, meaning),
                  ab |-> meaning_superset(meaning, other),
                  ba |-> meaning_superset(other, meaning)]
    /\ pc' = "compared"
    /\ UNCHANGED <<tag, tables, subtags, expect, parsed, flag, meaning, other, again>>

NextSuperset == MeaningSuperset

SpecSuperset == InitSuperset /\ [][NextSuperset]_vars

\* C7: meaning_superset(M, M) is true, the empty record is a superset of
\* every record, and two records that are supersets of each other are equal.
C7_SupersetOrder ==
    pc = "compared"
    => /\ result.self
       /\ result.empty
       /\ (result.ab /\ result.ba) => meaning = other

\* two records with the same two variants, found supersets of each other
C7_TwoVariants ==
    /\ pc = "compared"
    /\ "variant" \in DOMAIN meaning
    /\ Cardinality(meaning["variant"]) = 2
    /\ "language" \in DOMAIN other
    /\ result.ab
    /\ result.ba

-----------------------------------------------------------------------------
(* SpecInsensitive: tag_to_meaning and standardize_tag on a tag as written, *)
(* then on the same tag as normalize_characters spells it.                  *)

TagToMeaningNormalized ==
    /\ pc \in {"built", "raised"}
    /\ again' = tag_to_meaning(normalize_characters(tag), flag)
    /\ pc' = "meaning_compared"
    /\ UNCHANGED <<tag, tables, subtags, expect, parsed, result, flag, meaning, other>>

StandardizeTagNormalized ==
    /\ pc \in {"standardized", "rejected"}
    /\ again' = standardize_tag(normalize_characters(tag), flag)
    /\ pc' = "standard_compared"
    /\ UNCHANGED <<tag, tables, subtags, expect, parsed, result, flag, meaning, other>>

NextInsensitive ==
    \/ \E b \in BOOLEAN : TagToMeaning(b)
    \/ \E b \in BOOLEAN : StandardizeTag(b)
    \/ TagToMeaningNormalized
    \/ StandardizeTagNormalized

SpecInsensitive == Init /\ [][NextInsensitive]_vars

\* C13: tag_to_meaning(T, normalize) gives what
\* tag_to_meaning(normalize_characters(T), normalize) gives, and
\* standardize_tag(T, macro) what standardize_tag(normalize_characters(T),
\* macro) gives, for every tag and either value of the flag.
C13_Insensitive ==
    pc \in {"meaning_compared", "standard_compared"} => again = result

\* tag_to_meaning('SGN_US') gave language sgn, region US, and
\* tag_to_meaning('sgn-us') gave language ase
C13_SgnUs ==
    /\ pc = "meaning_compared"
    /\ tag = "SGN_US"
    /\ result = Return(("language" :> "sgn") @@ ("region" :> "US"))
    /\ again = Return("language" :> "ase")

=============================================================================
